---- MODULE Spec2Model ----
(***************************************************************************)
(* GcMap: the time-sliced, TTL-based garbage-collected map of              *)
(* util/collections/src/garbage/map.rs, together with the Duration type of *)
(* util/collections/src/garbage/mod.rs.                                    *)
(*                                                                         *)
(* value_lifetimes is the BTreeMap<u64, HashMap<K, V>>: a function from    *)
(* the slot ids present to the per-slot map (a function from the keys      *)
(* present in that slot to their values).                                  *)
(*                                                                         *)
(* The second part models main and start_suzuka of                         *)
(* networks/suzuka/suzuka-full-node/src/main.rs: the signal-handler task,  *)
(* the stop watch channel, the setup awaits and the final select.          *)
(***************************************************************************)
EXTENDS Integers, Sequences, FiniteSets, TLC

\* ------------------------------------------------------------------ bounds
\* Largest timestamp (ms) a caller passes.
MaxTime == 3
\* Largest value_ttl_ms handed to Duration::try_new.
MaxTtl == 2
\* Largest gc_slot_duration_ms handed to Duration::try_new.
MaxWidth == 3
\* Number of calls made on one GcMap.
MaxOps == 4
\* Width of the unsigned machine word standing for u64 (scaled down: every
\* timestamp and slot id of the model is far below 2^WordBits).
WordBits == 16

Keys == {"a", "b"}
Values == {1, 2}
Times == 0..MaxTime
Modulus == 2^WordBits

\* ------------------------------------------------------------- Option<T>
None == <<>>
Some(x) == <<x>>

\* ------------------------------------------------ garbage/mod.rs Duration
\* a constructor without the zero check
try_new_unchecked(value) == [ok |-> TRUE, duration |-> value]

\* Result<Duration, anyhow::Error>: Ok carries the NonZeroU64, Err carries none.
try_new(value) ==
    IF value = 0 THEN [ok |-> FALSE] ELSE [ok |-> TRUE, duration |-> value]

\* Duration::get
get(d) == d.duration

\* The Durations a caller can construct from the inputs 0..n.
Durations(n) == {get(try_new(x)) : x \in {y \in 0..n : try_new(y).ok}}

\* --------------------------------------------------------------- helpers
\* The empty HashMap / BTreeMap.
EmptyMap == [x \in {} |-> 0]

\* HashMap::insert
insert(m, key, value) ==
    [x \in DOMAIN m \cup {key} |-> IF x = key THEN value ELSE m[x]]

\* HashMap::remove (the map without key)
without(m, key) == [x \in DOMAIN m \ {key} |-> m[x]]

\* BTreeMap::keys : the slot ids in ascending order.
RECURSIVE Ascending(_)
Ascending(S) ==
    IF S = {} THEN <<>>
    ELSE LET m == CHOOSE x \in S : \A y \in S : x <= y
         IN  <<m>> \o Ascending(S \ {m})

keys(vl) == Ascending(DOMAIN vl)

\* Iterator::rev
rev(s) == [i \in 1..Len(s) |-> s[Len(s) + 1 - i]]

\* a take_while that also takes the slot equal to the cutoff
RECURSIVE take_while_le(_, _)
take_while_le(s, cutoff) ==
    IF s = <<>> THEN <<>>
    ELSE IF Head(s) <= cutoff THEN <<Head(s)>> \o take_while_le(Tail(s), cutoff)
    ELSE <<>>

\* Iterator::take_while(|slot| slot < cutoff)
RECURSIVE take_while(_, _)
take_while(s, cutoff) ==
    IF s = <<>> THEN <<>>
    ELSE IF Head(s) < cutoff THEN <<Head(s)>> \o take_while(Tail(s), cutoff)
    ELSE <<>>

Range(s) == {s[i] : i \in 1..Len(s)}

\* The slots whose map holds key.
Holders(vl, key) == {s \in DOMAIN vl : key \in DOMAIN vl[s]}

\* ----------------------------------------------------------------- state
VARIABLES
    value_ttl_ms,         \* Duration: the TTL
    gc_slot_duration_ms,  \* Duration: the slot width
    value_lifetimes,      \* slot id -> (key -> value)
    overflow_checks,      \* the build: TRUE panics on u64 overflow, FALSE wraps
    panicked,             \* a call has panicked
    lastOp,               \* the last call made, with its arguments
    lastSet,              \* key -> Some([value, time, gcs]) of the last set_value
                          \* of the key not yet followed by a remove_value of it;
                          \* gcs counts the gc calls since (0, 1, 2 = many)
    removed,              \* the keys whose entry a remove_value took out and
                          \* that no set_value has named since
    nOps,                 \* number of calls so far
    flat                  \* the reference store: one entry per key, no slots
                          \* ([defined, entries], entries: key -> Some([value, slot]))

gcVars == <<value_ttl_ms, gc_slot_duration_ms, value_lifetimes, overflow_checks,
            panicked, lastOp, lastSet, removed, nOps, flat>>

\* suzuka-full-node main.rs
VARIABLES
    main_pc,          \* where main / start_suzuka stands
    start_result,     \* what start_suzuka returned: "none", "Ok", "Err"
    exit_code,        \* what main returned: "none", "SUCCESS", "Err"
    handler,          \* the signal-handler task: "none", "waiting", "received",
                      \* "ended" (returned Err), "aborted" (runtime shut down)
    sig_pending,      \* signals delivered and not yet received by the handler
    stop_rx_changed,  \* the watch channel holds a value stop_rx has not seen
    gb_jh,            \* background task: "none", "running", "ok", "err", "aborted"
    run_jh,           \* executor task:   "none", "running", "ok", "err", "aborted"
    stop_sent         \* stop_tx.send(()) has succeeded while start_suzuka ran

nodeVars == <<main_pc, start_result, exit_code, handler, sig_pending,
              stop_rx_changed, gb_jh, run_jh, stop_sent>>

vars == <<gcVars, nodeVars>>

\* ------------------------------------------------------------- get_value
RECURSIVE get_value_scan(_, _, _)
get_value_scan(vl, slots, key) ==
    IF slots = <<>> THEN None
    ELSE IF key \in DOMAIN vl[Head(slots)] THEN Some(vl[Head(slots)][key])
    ELSE get_value_scan(vl, Tail(slots), key)

\* a lookup that gives up after the newest slot
get_value_newest_only(vl, key) ==
    IF keys(vl) = <<>> THEN None
    ELSE get_value_scan(vl, <<keys(vl)[Len(keys(vl))]>>, key)

get_value(vl, key) == get_value_scan(vl, rev(keys(vl)), key)

\* ---------------------------------------------------------- remove_value
RECURSIVE remove_value_scan(_, _, _)
remove_value_scan(vl, slots, key) ==
    IF slots = <<>> THEN vl
    ELSE IF key \in DOMAIN vl[Head(slots)]
         THEN [vl EXCEPT ![Head(slots)] = without(@, key)]
         ELSE remove_value_scan(vl, Tail(slots), key)

\* a removal that breaks out of the loop after the newest slot
remove_value_newest_only(vl, key) ==
    IF keys(vl) = <<>> THEN vl
    ELSE remove_value_scan(vl, <<keys(vl)[Len(keys(vl))]>>, key)

\* a removal that removes nothing
remove_value_noop(vl, key) == vl

\* a removal that also drops the slot it has emptied
remove_value_prune(vl, key) ==
    LET after == remove_value_scan(vl, rev(keys(vl)), key)
    IN  [s \in {x \in DOMAIN after : after[x] # EmptyMap \/ vl[x] = EmptyMap} |-> after[s]]

remove_value(vl, key) == remove_value_scan(vl, rev(keys(vl)), key)

\* ------------------------------------------------------------- set_value
\* a slot id that rounds up
slot_of_ceil(current_time_ms, width) == (current_time_ms + width - 1) \div width

slot_of(current_time_ms, width) == current_time_ms \div width

\* an insertion that replaces the slot's map by a new one
entry_insert_fresh(vl, slot, key, value) ==
    [s \in DOMAIN vl \cup {slot} |->
        IF s = slot THEN insert(EmptyMap, key, value) ELSE vl[s]]

\* entry(slot).or_insert_with(HashMap::new).insert(key, value)
entry_insert(vl, slot, key, value) ==
    [s \in DOMAIN vl \cup {slot} |->
        IF s = slot
        THEN insert(IF slot \in DOMAIN vl THEN vl[slot] ELSE EmptyMap, key, value)
        ELSE vl[s]]

\* a set_value that also drops the slots older than the TTL
set_value_eager(vl, width, key, value, current_time_ms) ==
    LET live == {s \in DOMAIN vl :
                    s + value_ttl_ms \div width >= slot_of(current_time_ms, width)}
    IN  entry_insert(remove_value([s \in live |-> vl[s]], key),
                     slot_of(current_time_ms, width), key, value)

set_value(vl, width, key, value, current_time_ms) ==
    entry_insert(remove_value(vl, key), slot_of(current_time_ms, width), key, value)

\* -------------------------------------------------------------------- gc
\* gc_slot - value_ttl_ms / gc_slot_duration_ms underflows
gc_underflows(ttl, width, current_time_ms) ==
    slot_of(current_time_ms, width) < ttl \div width

\* a cutoff one slot too young
slot_cutoff_early(ttl, width, current_time_ms) ==
    (slot_of(current_time_ms, width) - ttl \div width + 1 + Modulus) % Modulus

\* a cutoff one slot too old
slot_cutoff_late(ttl, width, current_time_ms) ==
    (slot_of(current_time_ms, width) - ttl \div width - 1 + Modulus) % Modulus

\* the u64 subtraction of a build without overflow checks
slot_cutoff(ttl, width, current_time_ms) ==
    (slot_of(current_time_ms, width) - ttl \div width + Modulus) % Modulus

\* a sweep that stops after the first expired slot
slots_to_remove_first(vl, ttl, width, current_time_ms) ==
    LET all == take_while(keys(vl), slot_cutoff(ttl, width, current_time_ms))
    IN  IF all = <<>> THEN <<>> ELSE <<Head(all)>>

slots_to_remove(vl, ttl, width, current_time_ms) ==
    take_while(keys(vl), slot_cutoff(ttl, width, current_time_ms))

\* the store a gc call that returns leaves behind
gc(vl, ttl, width, current_time_ms) ==
    LET gone == Range(slots_to_remove(vl, ttl, width, current_time_ms))
    IN  [s \in DOMAIN vl \ gone |-> vl[s]]

\* ------------------------------------------------------- reference store
\* One entry per key, tagged with the slot t / W of its set; gc deletes the
\* entries whose slot is below now / W - T / W.
FloorDiv(t, w) == CHOOSE n \in 0..t : n * w <= t /\ t < (n + 1) * w

FlatEmpty == [defined |-> TRUE, entries |-> [k \in Keys |-> None]]

FlatSet(f, width, key, value, t) ==
    [f EXCEPT !.entries[key] = Some([value |-> value, slot |-> FloorDiv(t, width)])]

FlatRemove(f, key) == [f EXCEPT !.entries[key] = None]

\* The reference is defined only while no gc cutoff has gone below zero.
FlatGc(f, ttl, width, now) ==
    LET cutoff == FloorDiv(now, width) - FloorDiv(ttl, width)
    IN  IF cutoff < 0 THEN [f EXCEPT !.defined = FALSE]
        ELSE [f EXCEPT !.entries =
                 [k \in Keys |-> IF f.entries[k] # None /\ f.entries[k][1].slot < cutoff
                                 THEN None ELSE f.entries[k]]]

FlatGet(f, key) ==
    IF f.entries[key] = None THEN None ELSE Some(f.entries[key][1].value)

\* --------------------------------------------------------------- actions
Init ==
    /\ value_ttl_ms \in Durations(MaxTtl)
    /\ gc_slot_duration_ms \in Durations(MaxWidth)
    /\ value_lifetimes = EmptyMap
    /\ overflow_checks \in BOOLEAN
    /\ panicked = FALSE
    /\ lastOp = [op |-> "new"]
    /\ lastSet = [k \in Keys |-> None]
    /\ removed = {}
    /\ nOps = 0
    /\ flat = FlatEmpty

Running == ~panicked /\ nOps < MaxOps

AgeGc(e) == IF e = None THEN None
            ELSE Some([e[1] EXCEPT !.gcs = IF @ < 2 THEN @ + 1 ELSE 2])

GetValue(key) ==
    /\ Running
    /\ lastOp' = [op |-> "get", key |-> key, result |-> get_value(value_lifetimes, key)]
    /\ nOps' = nOps + 1
    /\ UNCHANGED <<value_ttl_ms, gc_slot_duration_ms, value_lifetimes,
                   overflow_checks, panicked, lastSet, removed, flat>>
    /\ UNCHANGED nodeVars

RemoveValue(key) ==
    /\ Running
    /\ value_lifetimes' = remove_value(value_lifetimes, key)
    /\ lastOp' = [op |-> "remove", key |-> key]
    /\ lastSet' = [lastSet EXCEPT ![key] = None]
    /\ removed' = IF Holders(value_lifetimes, key) # {}
                  THEN removed \cup {key} ELSE removed
    /\ nOps' = nOps + 1
    /\ flat' = FlatRemove(flat, key)
    /\ UNCHANGED <<value_ttl_ms, gc_slot_duration_ms, overflow_checks, panicked>>
    /\ UNCHANGED nodeVars

SetValue(key, value, current_time_ms) ==
    /\ Running
    /\ value_lifetimes' =
          set_value(value_lifetimes, gc_slot_duration_ms, key, value, current_time_ms)
    /\ lastOp' = [op |-> "set", key |-> key, value |-> value,
                  time |-> current_time_ms, over |-> lastSet[key],
                  removed |-> key \in removed]
    /\ lastSet' = [lastSet EXCEPT ![key] =
                      Some([value |-> value, time |-> current_time_ms, gcs |-> 0])]
    /\ removed' = removed \ {key}
    /\ nOps' = nOps + 1
    /\ flat' = FlatSet(flat, gc_slot_duration_ms, key, value, current_time_ms)
    /\ UNCHANGED <<value_ttl_ms, gc_slot_duration_ms, overflow_checks, panicked>>
    /\ UNCHANGED nodeVars

\* A build with overflow checks panics on the underflowing subtraction, before
\* anything is removed; a build without them wraps and goes on.
Gc(current_time_ms) ==
    /\ Running
    /\ IF overflow_checks
          /\ gc_underflows(value_ttl_ms, gc_slot_duration_ms, current_time_ms)
       THEN /\ panicked' = TRUE
            /\ UNCHANGED value_lifetimes
       ELSE /\ value_lifetimes' =
                  gc(value_lifetimes, value_ttl_ms, gc_slot_duration_ms, current_time_ms)
            /\ UNCHANGED panicked
    /\ lastOp' = [op |-> "gc", time |-> current_time_ms]
    /\ lastSet' = [k \in Keys |-> AgeGc(lastSet[k])]
    /\ nOps' = nOps + 1
    /\ flat' = FlatGc(flat, value_ttl_ms, gc_slot_duration_ms, current_time_ms)
    /\ UNCHANGED <<value_ttl_ms, gc_slot_duration_ms, overflow_checks, removed>>
    /\ UNCHANGED nodeVars

Next ==
    \/ \E key \in Keys : GetValue(key)
    \/ \E key \in Keys : RemoveValue(key)
    \/ \E key \in Keys, value \in Values, t \in Times : SetValue(key, value, t)
    \/ \E t \in Times : Gc(t)

\* The process before main has run: no GcMap call ever touches this part.
NodeInit ==
    /\ main_pc = "start"
    /\ start_result = "none"
    /\ exit_code = "none"
    /\ handler = "none"
    /\ sig_pending = {}
    /\ stop_rx_changed = FALSE
    /\ gb_jh = "none"
    /\ run_jh = "none"
    /\ stop_sent = FALSE

\* GcMap::new in a process whose main is not modelled here.
SpecInit == Init /\ NodeInit

Spec == SpecInit /\ [][Next]_vars

\* ------------------------------------------------------ the 3000/1000 run
\* A GcMap with a TTL of 3000 ms and slots of 1000 ms, called four times:
\* set_value("a", 1, ta), set_value("b", 2, tb), gc(g1), gc(g2), with ta in
\* slot 0, tb in slot 1, g1 in slot 3 and g2 in slot 4.
ScenarioTimes ==
    <<{0, 500, 999}, {1000, 1200, 1999}, {3000, 3400, 3999}, {4000, 4600, 4999}>>

ScenarioInit ==
    /\ value_ttl_ms = get(try_new(3000))
    /\ gc_slot_duration_ms = get(try_new(1000))
    /\ value_lifetimes = EmptyMap
    /\ overflow_checks \in BOOLEAN
    /\ panicked = FALSE
    /\ lastOp = [op |-> "new"]
    /\ lastSet = [k \in Keys |-> None]
    /\ removed = {}
    /\ nOps = 0
    /\ flat = FlatEmpty
    /\ NodeInit

ScenarioSetA == nOps = 0 /\ \E t \in ScenarioTimes[1] : SetValue("a", 1, t)
ScenarioSetB == nOps = 1 /\ \E t \in ScenarioTimes[2] : SetValue("b", 2, t)
ScenarioGc1 == nOps = 2 /\ \E t \in ScenarioTimes[3] : Gc(t)
ScenarioGc2 == nOps = 3 /\ \E t \in ScenarioTimes[4] : Gc(t)

ScenarioNext == ScenarioSetA \/ ScenarioSetB \/ ScenarioGc1 \/ ScenarioGc2

ScenarioSpec == ScenarioInit /\ [][ScenarioNext]_vars

\* ------------------------------------------------- suzuka-full-node main
Signals == {"SIGTERM", "SIGINT", "SIGQUIT"}

\* The awaits and calls of start_suzuka between the spawn of the signal
\* handler and the spawn of the two tasks, each ended by `?`.
SetupSteps ==
    <<"try_from_env", "try_get_or_create_config_file", "Manager_new",
      "try_run", "try_get_config_from_json", "try_from_config">>

SetupIndex(pc) == CHOOSE i \in 1..Len(SetupSteps) : SetupSteps[i] = pc

\* stop_rx lives from the watch::channel call until start_suzuka returns
stop_rx_alive == main_pc \notin {"start", "returned", "exited"}

\* Builder::new_multi_thread().enable_all().build()?
BuildRuntime(ok) ==
    /\ main_pc = "start"
    /\ IF ok THEN /\ main_pc' = "start_suzuka"
                  /\ UNCHANGED exit_code
       ELSE /\ main_pc' = "exited"
            /\ exit_code' = "Err"
    /\ UNCHANGED <<start_result, handler, sig_pending, stop_rx_changed,
                   gb_jh, run_jh, stop_sent>>
    /\ UNCHANGED gcVars

\* watch::channel, the three signal(..)? registrations, tokio::spawn
SpawnSignalHandler(ok) ==
    /\ main_pc = "start_suzuka"
    /\ IF ok THEN /\ handler' = "waiting"
                  /\ main_pc' = SetupSteps[1]
                  /\ UNCHANGED start_result
       ELSE /\ start_result' = "Err"
            /\ main_pc' = "returned"
            /\ UNCHANGED handler
    /\ UNCHANGED <<exit_code, sig_pending, stop_rx_changed, gb_jh, run_jh, stop_sent>>
    /\ UNCHANGED gcVars

\* One of the six steps completes; Err leaves start_suzuka through `?`.
SetupStep(ok) ==
    /\ main_pc \in Range(SetupSteps)
    /\ IF ok
       THEN /\ main_pc' = IF SetupIndex(main_pc) < Len(SetupSteps)
                          THEN SetupSteps[SetupIndex(main_pc) + 1]
                          ELSE "spawn_tasks"
            /\ UNCHANGED start_result
       ELSE /\ start_result' = "Err"
            /\ main_pc' = "returned"
    /\ UNCHANGED <<exit_code, handler, sig_pending, stop_rx_changed,
                   gb_jh, run_jh, stop_sent>>
    /\ UNCHANGED gcVars

\* tokio::spawn(background_task); tokio::spawn(executor.run())
SpawnTasks ==
    /\ main_pc = "spawn_tasks"
    /\ gb_jh' = "running"
    /\ run_jh' = "running"
    /\ main_pc' = "select"
    /\ UNCHANGED <<start_result, exit_code, handler, sig_pending,
                   stop_rx_changed, stop_sent>>
    /\ UNCHANGED gcVars

\* The background task ends by itself: Ok, or Err / panic ("err").
BackgroundTaskEnds(res) ==
    /\ gb_jh = "running"
    /\ gb_jh' = res
    /\ UNCHANGED <<main_pc, start_result, exit_code, handler, sig_pending,
                   stop_rx_changed, run_jh, stop_sent>>
    /\ UNCHANGED gcVars

\* executor.run() ends by itself: Ok, or Err / panic ("err").
ExecutorRunEnds(res) ==
    /\ run_jh = "running"
    /\ run_jh' = res
    /\ UNCHANGED <<main_pc, start_result, exit_code, handler, sig_pending,
                   stop_rx_changed, gb_jh, stop_sent>>
    /\ UNCHANGED gcVars

\* The outcomes select! may take: any branch that is ready.
SelectOutcomes ==
    (IF stop_rx_changed THEN {"Ok"} ELSE {})
    \cup (IF gb_jh = "ok" \/ run_jh = "ok" THEN {"Ok"} ELSE {})
    \cup (IF gb_jh = "err" \/ run_jh = "err" THEN {"Err"} ELSE {})

\* select! { stop_rx.changed() => (), res = gb_jh => res??, res = run_jh => res?? }
FinalSelect ==
    /\ main_pc = "select"
    /\ \E r \in SelectOutcomes : start_result' = r
    /\ main_pc' = "returned"
    /\ UNCHANGED <<exit_code, handler, sig_pending, stop_rx_changed,
                   gb_jh, run_jh, stop_sent>>
    /\ UNCHANGED gcVars

Abort(task) == IF task \in {"waiting", "received", "running"} THEN "aborted" ELSE task

\* block_on has returned: log an Err, runtime.shutdown_background(),
\* Ok(ExitCode::SUCCESS)
MainShutdown ==
    /\ main_pc = "returned"
    /\ handler' = Abort(handler)
    /\ gb_jh' = Abort(gb_jh)
    /\ run_jh' = Abort(run_jh)
    /\ exit_code' = "SUCCESS"
    /\ main_pc' = "exited"
    /\ UNCHANGED <<start_result, sig_pending, stop_rx_changed, stop_sent>>
    /\ UNCHANGED gcVars

\* The operating system delivers a signal the process has registered for.
Deliver(sig) ==
    /\ handler # "none"
    /\ main_pc # "exited"
    /\ sig \notin sig_pending
    /\ sig_pending' = sig_pending \cup {sig}
    /\ UNCHANGED <<main_pc, start_result, exit_code, handler, stop_rx_changed,
                   gb_jh, run_jh, stop_sent>>
    /\ UNCHANGED gcVars

\* select! { sigterm.recv(), sigint.recv(), sigquit.recv() }: any ready branch
HandlerRecv ==
    /\ handler = "waiting"
    /\ \E sig \in sig_pending : sig_pending' = sig_pending \ {sig}
    /\ handler' = "received"
    /\ UNCHANGED <<main_pc, start_result, exit_code, stop_rx_changed,
                   gb_jh, run_jh, stop_sent>>
    /\ UNCHANGED gcVars

\* stop_tx.send(()): Ok while stop_rx is alive, and the loop goes on;
\* Err once it is dropped, and the task returns Err.
HandlerSend ==
    /\ handler = "received"
    /\ IF stop_rx_alive
       THEN /\ stop_rx_changed' = TRUE
            /\ stop_sent' = TRUE
            /\ handler' = "waiting"
       ELSE /\ handler' = "ended"
            /\ UNCHANGED <<stop_rx_changed, stop_sent>>
    /\ UNCHANGED <<main_pc, start_result, exit_code, sig_pending, gb_jh, run_jh>>
    /\ UNCHANGED gcVars

NodeNext ==
    \/ \E ok \in BOOLEAN : BuildRuntime(ok)
    \/ \E ok \in BOOLEAN : SpawnSignalHandler(ok)
    \/ \E ok \in BOOLEAN : SetupStep(ok)
    \/ SpawnTasks
    \/ \E res \in {"ok", "err"} : BackgroundTaskEnds(res)
    \/ \E res \in {"ok", "err"} : ExecutorRunEnds(res)
    \/ FinalSelect
    \/ MainShutdown
    \/ \E sig \in Signals : Deliver(sig)
    \/ HandlerRecv
    \/ HandlerSend

\* The node process, which makes no GcMap call: a fresh GcMap stands by.
NodeSpecInit ==
    /\ value_ttl_ms = get(try_new(1))
    /\ gc_slot_duration_ms = get(try_new(1))
    /\ value_lifetimes = EmptyMap
    /\ overflow_checks = TRUE
    /\ panicked = FALSE
    /\ lastOp = [op |-> "new"]
    /\ lastSet = [k \in Keys |-> None]
    /\ removed = {}
    /\ nOps = 0
    /\ flat = FlatEmpty
    /\ NodeInit

NodeSpec == NodeSpecInit /\ [][NodeNext]_vars

\* ================================================================ claims
T == value_ttl_ms
W == gc_slot_duration_ms

\* floor(t / w), stated without the division of the code
Floor(t, w) == FloorDiv(t, w)

\* the last set_value of key that no remove_value of it has followed
Entry(key) == lastSet[key][1]

\* ---------------------------------------------------------------- C1
\* C1: in every reachable state each key occurs in at most one slot of
\* value_lifetimes, whatever the order of the timestamps.
C1_KeyUniqueness ==
    \A k \in Keys : Cardinality(Holders(value_lifetimes, k)) <= 1

\* A key set again at an earlier timestamp, in another slot, and still held.
C1_Witness ==
    /\ lastOp.op = "set"
    /\ lastOp.over # None
    /\ lastOp.time < lastOp.over[1].time
    /\ slot_of(lastOp.time, W) # slot_of(lastOp.over[1].time, W)
    /\ Holders(value_lifetimes, lastOp.key) # {}
    /\ \E k \in Keys \ {lastOp.key} : Holders(value_lifetimes, k) # {}

\* ---------------------------------------------------------------- C2
\* C2: after set_value(key, v1, t1) followed by set_value(key, v2, t2) with
\* t2 >= t1 and no gc in between, exactly one slot holds key and
\* get_value(key) is v2.
C2_Overwrite ==
    (/\ lastOp.op = "set"
     /\ lastOp.over # None
     /\ lastOp.over[1].gcs = 0
     /\ lastOp.time >= lastOp.over[1].time)
    => /\ Cardinality(Holders(value_lifetimes, lastOp.key)) = 1
       /\ get_value(value_lifetimes, lastOp.key) = Some(lastOp.value)

\* An overwrite with another value in a later slot, another key set in between.
C2_Witness ==
    /\ lastOp.op = "set"
    /\ lastOp.over # None
    /\ lastOp.over[1].gcs = 0
    /\ slot_of(lastOp.time, W) > slot_of(lastOp.over[1].time, W)
    /\ lastOp.value # lastOp.over[1].value
    /\ \E k \in Keys \ {lastOp.key} : Holders(value_lifetimes, k) # {}
    /\ get_value(value_lifetimes, lastOp.key) = Some(lastOp.value)

\* ---------------------------------------------------------------- C3
\* C3: after set_value(key, v, t) followed by gc(t + T - W), get_value(key)
\* still returns v.
C3_NoPrematureEviction ==
    \A k \in Keys :
        (/\ lastOp.op = "gc"
         /\ lastSet[k] # None
         /\ Entry(k).gcs = 1
         /\ lastOp.time + W = Entry(k).time + T)
        => get_value(value_lifetimes, k) = Some(Entry(k).value)

\* ---------------------------------------------------------------- C4
\* C4: gc(t) with t / W < T / W (a fresh store included) does not panic and
\* removes no slot.
C4_UnderflowSafety ==
    [][(lastOp'.op = "gc" /\ Floor(lastOp'.time, W) < Floor(T, W))
          => (~panicked' /\ value_lifetimes' = value_lifetimes)]_vars

\* ---------------------------------------------------------------- C5
\* C5: after set_value(key, v, t) and a single gc(t + T + W), gc has returned
\* and get_value(key) is None.
C5_EvictionCorrectness ==
    \A k \in Keys :
        (/\ lastOp.op = "gc"
         /\ lastSet[k] # None
         /\ lastOp.time = Entry(k).time + T + W)
        => /\ ~panicked
           /\ get_value(value_lifetimes, k) = None

\* The gc(t + T + W) is the only gc since the set_value, and it ran.
C5_Witness ==
    \E k \in Keys :
        /\ lastOp.op = "gc"
        /\ lastSet[k] # None
        /\ Entry(k).gcs = 1
        /\ lastOp.time = Entry(k).time + T + W
        /\ get_value(value_lifetimes, k) = None

C7_Removal ==
    [][/\ lastOp'.op = "remove"
          => /\ Holders(value_lifetimes', lastOp'.key) = {}
             /\ get_value(value_lifetimes', lastOp'.key) = None
       /\ (lastOp'.op = "set" /\ lastOp'.removed)
          => LET k == lastOp'.key
                 slot == Floor(lastOp'.time, W)
             IN  /\ Holders(value_lifetimes', k) = {slot}
                 /\ value_lifetimes'[slot][k] = lastOp'.value
                 /\ DOMAIN value_lifetimes' = DOMAIN value_lifetimes \cup {slot}
                 /\ \A s \in DOMAIN value_lifetimes :
                       /\ DOMAIN value_lifetimes'[s] \ {k} = DOMAIN value_lifetimes[s]
                       /\ \A k2 \in DOMAIN value_lifetimes[s] :
                             value_lifetimes'[s][k2] = value_lifetimes[s][k2]]_vars

\* A key that was held, removed, and set again into a slot that holds
\* another key.
C7_Witness ==
    /\ lastOp.op = "set"
    /\ lastOp.removed
    /\ get_value(value_lifetimes, lastOp.key) = Some(lastOp.value)
    /\ \E k \in Keys \ {lastOp.key} :
          Holders(value_lifetimes, k) = Holders(value_lifetimes, lastOp.key)

\* ---------------------------------------------------------------- C8
\* C8: gc(now) removes exactly the slots with id < now/W - T/W and leaves
\* every slot with id >= that cutoff, and its contents, unchanged.
C8_GcFrame ==
    [][lastOp'.op = "gc"
          => LET cutoff == Floor(lastOp'.time, W) - Floor(T, W)
             IN  /\ DOMAIN value_lifetimes' =
                       {s \in DOMAIN value_lifetimes : s >= cutoff}
                 /\ \A s \in DOMAIN value_lifetimes' :
                       value_lifetimes'[s] = value_lifetimes[s]]_vars

\* ---------------------------------------------------------------- C9
\* C9: set_value(key, v, t) places key in slot floor(t / W); two timestamps of
\* the same interval [n*W, (n+1)*W) give the same store after set_value and
\* the same outcome and store after gc.
C9_RoutingDeterminism ==
    /\ lastOp.op = "set"
          => Holders(value_lifetimes, lastOp.key) = {Floor(lastOp.time, W)}
    /\ \A t1 \in Times, t2 \in Times :
          Floor(t1, W) = Floor(t2, W)
          => /\ \A k \in Keys, v \in Values :
                   set_value(value_lifetimes, W, k, v, t1)
                      = set_value(value_lifetimes, W, k, v, t2)
             /\ gc_underflows(T, W, t1) = gc_underflows(T, W, t2)
             /\ gc(value_lifetimes, T, W, t1) = gc(value_lifetimes, T, W, t2)

\* A set_value at a timestamp that shares its slot with another timestamp.
C9_Witness ==
    /\ lastOp.op = "set"
    /\ W > 1
    /\ lastOp.time % W # 0
    /\ Holders(value_lifetimes, lastOp.key) = {Floor(lastOp.time, W)}
    /\ Cardinality(DOMAIN value_lifetimes) > 1

\* --------------------------------------------------------------- C10
\* C10: a key get_value reports present becomes absent only in a
\* remove_value of that key or a gc that sweeps its whole slot, and its value
\* changes only in a set_value of that key.
C10_EntryLifecycle ==
    [][\A k \in Keys :
          get_value(value_lifetimes, k) # None
          => /\ get_value(value_lifetimes', k) = None
                => \/ lastOp'.op = "remove" /\ lastOp'.key = k
                   \/ /\ lastOp'.op = "gc"
                      /\ Holders(value_lifetimes, k) \cap DOMAIN value_lifetimes' = {}
             /\ get_value(value_lifetimes', k)
                   \notin {None, get_value(value_lifetimes, k)}
                => lastOp'.op = "set" /\ lastOp'.key = k]_vars

\* A gc swept the slot of one key and left the other key in place.
C10_Witness ==
    /\ lastOp.op = "gc"
    /\ \E k \in Keys :
          /\ lastSet[k] # None
          /\ get_value(value_lifetimes, k) = None
    /\ \E k \in Keys : get_value(value_lifetimes, k) # None

\* --------------------------------------------------------------- C11
\* C11: with TTL 3000 ms and slots of 1000 ms, after set_value("a", 1, 500)
\* and set_value("b", 2, 1200) "a" is in slot 0 and "b" in slot 1; gc(3400)
\* evicts nothing and both keys are still read; gc(4600) evicts slot 0 only:
\* get_value("a") is None and get_value("b") is 2.  (Checked for every
\* timestamp of ScenarioTimes, 500, 1200, 3400 and 4600 among them.)
C11_Scenario ==
    /\ ~panicked
    /\ nOps >= 1 => (nOps <= 3 => Holders(value_lifetimes, "a") = {0})
    /\ nOps >= 2 => Holders(value_lifetimes, "b") = {1}
    /\ nOps \in {2, 3}
          => /\ value_lifetimes = (0 :> ("a" :> 1)) @@ (1 :> ("b" :> 2))
             /\ get_value(value_lifetimes, "a") = Some(1)
             /\ get_value(value_lifetimes, "b") = Some(2)
    /\ nOps = 4
          => /\ value_lifetimes = (1 :> ("b" :> 2))
             /\ get_value(value_lifetimes, "a") = None
             /\ get_value(value_lifetimes, "b") = Some(2)

\* The run with exactly the timestamps 500, 1200, 3400, 4600, at its end.
C11_Witness ==
    /\ nOps = 4
    /\ lastOp = [op |-> "gc", time |-> 4600]
    /\ lastSet["a"] = Some([value |-> 1, time |-> 500, gcs |-> 2])
    /\ lastSet["b"] = Some([value |-> 2, time |-> 1200, gcs |-> 2])
    /\ get_value(value_lifetimes, "a") = None
    /\ get_value(value_lifetimes, "b") = Some(2)

\* --------------------------------------------------------------- C12
\* C12: Duration::try_new(v) is an error exactly when v = 0, and for v # 0
\* the Duration's get() is v; so the slot width (and the TTL) of a GcMap is
\* never zero and no call divides by zero.
C12_DurationNonZero ==
    /\ \A v \in 0..(MaxTtl + MaxWidth) :
          /\ try_new(v).ok <=> v # 0
          /\ v # 0 => get(try_new(v)) = v
    /\ gc_slot_duration_ms \in 1..MaxWidth
    /\ value_ttl_ms \in 1..MaxTtl

\* A gc that returned, having divided a timestamp and the TTL by the width.
C12_Witness ==
    /\ lastOp.op = "gc"
    /\ ~panicked
    /\ lastOp.time > 0
    /\ gc_slot_duration_ms > 1
    /\ value_lifetimes # EmptyMap

C14_BoundedStaleness ==
    (lastOp.op = "gc" /\ Floor(lastOp.time, W) >= Floor(T, W))
    => LET now == lastOp.time
           cutoff == Floor(now, W) - Floor(T, W)
       IN  /\ ~panicked
           /\ \A s \in DOMAIN value_lifetimes : s >= cutoff
           /\ (\A s \in DOMAIN value_lifetimes : s <= Floor(now, W))
              => /\ Cardinality(DOMAIN value_lifetimes) <= Floor(T, W) + 1
                 /\ \A k \in Keys :
                       get_value(value_lifetimes, k) # None
                       => /\ lastSet[k] # None
                          /\ now - Entry(k).time < T + W

\* A sweep that dropped one key and kept another that is already T or more
\* milliseconds old.
C14_Witness ==
    /\ lastOp.op = "gc"
    /\ Floor(lastOp.time, W) >= Floor(T, W)
    /\ \A s \in DOMAIN value_lifetimes : s <= Floor(lastOp.time, W)
    /\ \E k \in Keys :
          /\ lastSet[k] # None
          /\ Entry(k).time <= lastOp.time
          /\ get_value(value_lifetimes, k) = None
    /\ \E k \in Keys :
          /\ get_value(value_lifetimes, k) # None
          /\ lastOp.time - Entry(k).time >= T

\* ---------------------------------------------------------------- C15
\* C15: along every sequence of set_value, remove_value, gc and get_value
\* calls in which no gc cutoff underflows, get_value answers for every key
\* what the flat reference store answers, the result of the last get_value
\* call included, and a held key sits in the slot the reference records.
C15_FlatRefinement ==
    flat.defined
    => /\ ~panicked
       /\ \A k \in Keys :
             /\ get_value(value_lifetimes, k) = FlatGet(flat, k)
             /\ flat.entries[k] # None
                => Holders(value_lifetimes, k) = {flat.entries[k][1].slot}
       /\ lastOp.op = "get" => lastOp.result = FlatGet(flat, lastOp.key)

\* A get_value after a gc that did not underflow and swept one key the
\* reference had, while the other key is still answered.
C15_Witness ==
    /\ flat.defined
    /\ lastOp.op = "get"
    /\ lastOp.result # None
    /\ \E k \in Keys :
          /\ lastSet[k] # None
          /\ Entry(k).gcs >= 1
          /\ FlatGet(flat, k) = None
          /\ get_value(value_lifetimes, k) = None
    /\ \E k \in Keys : lastSet[k] # None /\ Entry(k).gcs >= 1 /\ FlatGet(flat, k) # None

\* ---------------------------------------------------------------- C16
\* C16: on every reachable store, for all t1 <= t2 whose cutoffs do not
\* underflow, gc(t1) followed by gc(t2) leaves value_lifetimes as gc(t2)
\* alone does, and gc(t) twice leaves it as gc(t) once does.
C16_GcAbsorbs ==
    \A t1 \in Times, t2 \in Times :
        (/\ t1 <= t2
         /\ ~gc_underflows(T, W, t1)
         /\ ~gc_underflows(T, W, t2))
        => /\ gc(gc(value_lifetimes, T, W, t1), T, W, t2) = gc(value_lifetimes, T, W, t2)
           /\ gc(gc(value_lifetimes, T, W, t1), T, W, t1) = gc(value_lifetimes, T, W, t1)

\* A store left by a sweep that did not underflow, on which a sweep at t1
\* removes a slot and a later sweep at t2 removes that slot and another.
C16_Witness ==
    /\ lastOp.op = "gc"
    /\ ~panicked
    /\ ~gc_underflows(T, W, lastOp.time)
    /\ \E t1 \in Times, t2 \in Times :
          /\ t1 < t2
          /\ ~gc_underflows(T, W, t1)
          /\ ~gc_underflows(T, W, t2)
          /\ gc(value_lifetimes, T, W, t1) # value_lifetimes
          /\ gc(value_lifetimes, T, W, t2) # gc(value_lifetimes, T, W, t1)
          /\ gc(gc(value_lifetimes, T, W, t1), T, W, t2) = gc(value_lifetimes, T, W, t2)

\* ---------------------------------------------------------------- C17
\* C17: a get_value or remove_value step leaves the set of slot ids of
\* value_lifetimes as it was, even when a slot becomes empty; a set_value
\* step keeps every slot id and adds at most the id t / W of its timestamp;
\* so every step other than gc leaves at least as many slots as it found.
C17_OnlyGcDestroysSlots ==
    [][/\ lastOp'.op \in {"get", "remove"}
          => DOMAIN value_lifetimes' = DOMAIN value_lifetimes
       /\ lastOp'.op = "set"
          => /\ DOMAIN value_lifetimes \subseteq DOMAIN value_lifetimes'
             /\ DOMAIN value_lifetimes' \subseteq
                   DOMAIN value_lifetimes \cup {Floor(lastOp'.time, W)}
       /\ lastOp'.op # "gc"
          => Cardinality(DOMAIN value_lifetimes') >= Cardinality(DOMAIN value_lifetimes)
      ]_vars

\* A remove_value that took the only key out of its slot: the slot is still
\* there, empty, next to a slot that holds the other key.
C17_Witness ==
    /\ lastOp.op = "remove"
    /\ lastOp.key \in removed
    /\ Holders(value_lifetimes, lastOp.key) = {}
    /\ \E s \in DOMAIN value_lifetimes : value_lifetimes[s] = EmptyMap
    /\ \E s \in DOMAIN value_lifetimes : value_lifetimes[s] # EmptyMap

\* ---------------------------------------------------------------- C18
\* C18: once the signal handler has passed a signal on to the stop channel
\* of a running start_suzuka, start_suzuka returns Ok(()), and main then
\* returns ExitCode::SUCCESS.  Stated on the final result: a main that has
\* exited after such a signal has seen start_suzuka return Ok(()).
C18_ShutdownOnSignal ==
    (stop_sent /\ main_pc = "exited")
    => /\ start_result = "Ok"
       /\ exit_code = "SUCCESS"

============================================================================
